---------------------------- MODULE Spec2Model ----------------------------
(***************************************************************************)
(* Model of model/run.py: the script that builds the training workflow     *)
(* (a Step Functions state machine definition), pushes it with             *)
(* Workflow.update and writes four JSON artifacts, together with the       *)
(* execution of the pushed definition by the state-machine service.        *)
(***************************************************************************)
EXTENDS Integers, Sequences, FiniteSets, TLC

VARIABLES
    args,             \* main's arguments and the files of data_dir
    pc,               \* main's position
    image_uri,        \* main's local image_uri
    job_id,           \* main's local job_id
    hyperparameters,  \* main's local hyperparameters
    workflow_graph,   \* main's local workflow_graph
    deployed,         \* the definition held by the service (Workflow.update)
    files,            \* the artifacts of output_dir
    log,              \* the steps main has completed, in order
    exec,             \* the execution of the deployed definition
    cur,              \* per context (0: top level, 1..: branches) the current state
    ctx,              \* per context: idle, running, succeeded, failed, aborted
    ctxError,         \* per context: the error (and cause) it failed with
    status,           \* per state name: NotStarted, Running, Succeeded, Failed, ...
    entries,          \* per state name: how many times it was entered
    error,            \* per state name: the error its task raised
    data              \* the execution's data, per result path

mainVars == <<args, pc, image_uri, job_id, hyperparameters, workflow_graph,
              deployed, files, log>>
execVars == <<exec, cur, ctx, ctxError, status, entries, error, data>>
vars == <<args, pc, image_uri, job_id, hyperparameters, workflow_graph,
          deployed, files, log, exec, cur, ctx, ctxError, status, entries,
          error, data>>

(***************************************************************************)
(* Bounds of the model.                                                    *)
(***************************************************************************)
MaxHpInt == 1        \* integers 0..MaxHpInt appear in hyperparameters.json
MetricSpread == 2    \* metric values range over Threshold -+ MetricSpread
EntryCap == 2        \* the entry counters saturate here

(***************************************************************************)
(* JSON values read from hyperparameters.json and Python's str().          *)
(***************************************************************************)
JInt(n) == [type |-> "int", int |-> n, str |-> ""]
JStr(s) == [type |-> "str", int |-> 0, str |-> s]

Digit(d) ==
    CASE d = 0 -> "0" [] d = 1 -> "1" [] d = 2 -> "2" [] d = 3 -> "3"
      [] d = 4 -> "4" [] d = 5 -> "5" [] d = 6 -> "6" [] d = 7 -> "7"
      [] d = 8 -> "8" [] OTHER -> "9"

RECURSIVE Decimal(_)
Decimal(n) == IF n < 10 THEN Digit(n) ELSE Decimal(n \div 10) \o Digit(n % 10)

\* str(v) of a JSON value
str(v) == IF v.type = "int" THEN Decimal(v.int) ELSE v.str

UserKeys == {"eta", "lambda"}
JsonValues == {JInt(n) : n \in 0..MaxHpInt} \cup {JStr("0.3")}
JsonObjects == UNION {[ks -> JsonValues] : ks \in SUBSET UserKeys}
ModelNames == {"m", "xgb"}

(***************************************************************************)
(* The steps of the stepfunctions SDK.  A step refers to other steps by    *)
(* their (unique) names; a graph is a start name and a set of steps.       *)
(***************************************************************************)
Step(name, type) ==
    [Name |-> name, Type |-> type, Next |-> "", Catch |-> <<>>,
     Choices |-> <<>>, Default |-> "", Cause |-> "", ResultPath |-> "",
     Parameters |-> <<>>, Branches |-> <<>>]

NoGraph == [StartAt |-> "", States |-> {}]

\* steps.states.Catch(error_equals, next_step)
Catch(error_equals, next_step) ==
    [ErrorEquals |-> error_equals, Next |-> next_step.Name]

\* step.add_catch(catch)
add_catch(step, catch) == [step EXCEPT !.Catch = Append(@, catch)]

\* steps.states.Fail(name, cause)
Fail(name, cause) == [Step(name, "Fail") EXCEPT !.Cause = cause]

\* steps.states.Chain(steps): each step's next is the step after it.  The
\* graph holds the chained steps and the steps they refer to (others).
Chain(steps, others) ==
    [StartAt |-> steps[1].Name,
     States |-> {IF i < Len(steps)
                    THEN [steps[i] EXCEPT !.Next = steps[i + 1].Name]
                    ELSE steps[i] : i \in 1..Len(steps)} \cup others]

(***************************************************************************)
(* create_experiment_step and create_baseline_step                         *)
(***************************************************************************)
create_experiment_step(create_experiment_function_name) ==
    [Step("Create Experiment", "Task") EXCEPT
        !.Parameters = [FunctionName |-> create_experiment_function_name],
        !.ResultPath = "$.CreateTrialResults"]

baseline_failed == Fail("Baseline failed", "SageMakerBaselineJobFailed")

baseline_catch == Catch({"States.TaskFailed"}, baseline_failed)

\* the returned step, with the step its catch refers to
create_baseline_step(input_data, role) ==
    Chain(<<add_catch([Step("Baseline Job", "Task") EXCEPT
                          !.Parameters = [BaselineUri |-> input_data,
                                          role |-> role]],
                      baseline_catch)>>,
          {baseline_failed})

\* sagemaker.image_uris.retrieve(region, "xgboost", "latest")
get_training_image == "managed/xgboost:latest"

(***************************************************************************)
(* create_training_step                                                    *)
(***************************************************************************)
\* the eight built-in defaults
hp ==
    [k \in {"max_depth", "eta", "gamma", "min_child_weight", "subsample",
            "objective", "early_stopping_rounds", "num_round"} |->
        CASE k = "max_depth" -> JStr("9")
          [] k = "eta" -> JStr("0.2")
          [] k = "gamma" -> JStr("4")
          [] k = "min_child_weight" -> JStr("300")
          [] k = "subsample" -> JStr("0.8")
          [] k = "objective" -> JStr("reg:linear")
          [] k = "early_stopping_rounds" -> JStr("10")
          [] OTHER -> JStr("100")]

\* faulty variant of Merge: the left operand wins
MergeReversed(a, b) ==
    [k \in DOMAIN a \cup DOMAIN b |-> IF k \in DOMAIN a THEN a[k] ELSE b[k]]

\* {**a, **b}
Merge(a, b) ==
    [k \in DOMAIN a \cup DOMAIN b |-> IF k \in DOMAIN b THEN b[k] ELSE a[k]]

\* the estimator after xgb.set_hyperparameters(**{**hp, **hyperparameters})
Estimator(uri, role, hypers) ==
    [image_uri |-> uri, role |-> role, hyperparameters |-> Merge(hp, hypers)]

training_failed == Fail("Training failed", "SageMakerTrainingJobFailed")

\* faulty variant of training_catch: another error name
training_catch_timeout == Catch({"States.Timeout"}, training_failed)

training_catch == Catch({"States.TaskFailed"}, training_failed)

training_step(xgb) ==
    add_catch([Step("Training Job", "Task") EXCEPT
                  !.Parameters = xgb, !.ResultPath = "$.TrainingResults"],
              training_catch)

model_step ==
    [Step("Save Model", "Task") EXCEPT !.ResultPath = "$.ModelStepResults"]

training_query_step(query_training_function_name) ==
    [Step("Query Training Results", "Task") EXCEPT
        !.Parameters = [FunctionName |-> query_training_function_name],
        !.ResultPath = "$.QueryTrainingResults"]

check_accuracy_fail_step == Step("Model Error Too Low", "Fail")

check_accuracy_succeed_step == Step("Model Error Acceptable", "Succeed")

Threshold == 10

\* faulty variant of threshold_rule: less than or equal
threshold_rule_lte ==
    [Variable |-> "$.QueryTrainingResults", Op |-> "NumericLessThanEquals",
     Value |-> Threshold]

\* ChoiceRule.NumericLessThan(variable = <the first training metric value
\* under $.QueryTrainingResults>, value = 10)
threshold_rule ==
    [Variable |-> "$.QueryTrainingResults", Op |-> "NumericLessThan",
     Value |-> Threshold]

\* choice.add_choice(rule, next_step)
add_choice(choice, rule, next_step) ==
    [choice EXCEPT !.Choices =
        Append(@, [Rule |-> rule, Next |-> next_step.Name])]

\* choice.default_choice(next_step)
default_choice(choice, next_step) == [choice EXCEPT !.Default = next_step.Name]

\* faulty variant of check_accuracy_step: the default choice loops back
check_accuracy_step_retrain ==
    [default_choice(add_choice(Step("RMSE < 10", "Choice"), threshold_rule,
                               check_accuracy_succeed_step),
                    check_accuracy_fail_step)
        EXCEPT !.Default = "Training Job"]

check_accuracy_step ==
    default_choice(add_choice(Step("RMSE < 10", "Choice"), threshold_rule,
                              check_accuracy_succeed_step),
                   check_accuracy_fail_step)

\* faulty variant of training_chain: two steps swapped
training_chain_swapped(a, b, c, d) == <<a, c, b, d>>

\* the list handed to steps.states.Chain
training_chain(a, b, c, d) == <<a, b, c, d>>

create_training_step(uri, hypers, query_training_function_name, role) ==
    Chain(training_chain(training_step(Estimator(uri, role, hypers)),
                         model_step,
                         training_query_step(query_training_function_name),
                         check_accuracy_step),
          {training_failed, check_accuracy_fail_step,
           check_accuracy_succeed_step})

(***************************************************************************)
(* create_graph                                                            *)
(***************************************************************************)
sagemaker_jobs_failed == Fail("SageMaker Jobs failed", "SageMakerJobsFailed")

create_graph(experiment_step, baseline_step, training_branch) ==
    LET sagemaker_jobs ==
            add_catch([Step("SageMaker Jobs", "Parallel") EXCEPT
                          !.Branches = <<baseline_step, training_branch>>],
                      Catch({"States.TaskFailed"}, sagemaker_jobs_failed))
    IN  Chain(<<experiment_step, sagemaker_jobs>>, {sagemaker_jobs_failed})

(***************************************************************************)
(* get_dev_params, get_prd_params                                          *)
(***************************************************************************)
get_dev_params(model_name, jobid, role, uri, kms_key_id) ==
    [Parameters |->
        [k \in {"ImageRepoUri", "ModelName", "TrainJobId", "MLOpsRoleArn",
                "VariantName", "KmsKeyId"} |->
            CASE k = "ImageRepoUri" -> uri
              [] k = "ModelName" -> model_name
              [] k = "TrainJobId" -> jobid
              [] k = "MLOpsRoleArn" -> role
              [] k = "VariantName" -> "dev-" \o model_name
              [] OTHER -> kms_key_id]]

\* faulty variant of prod_params: VariantName is not overridden
prod_params_novariant(model_name) ==
    [k \in {"ScheduleMetricName", "ScheduleMetricThreshold"} |->
        CASE k = "ScheduleMetricName" -> "feature_baseline_drift_total_amount"
          [] OTHER -> "0.20"]

prod_params(model_name) ==
    [k \in {"VariantName", "ScheduleMetricName", "ScheduleMetricThreshold"} |->
        CASE k = "VariantName" -> "prd-" \o model_name
          [] k = "ScheduleMetricName" -> "feature_baseline_drift_total_amount"
          [] OTHER -> "0.20"]

get_prd_params(model_name, jobid, role, uri, kms_key_id) ==
    LET dev_params ==
            get_dev_params(model_name, jobid, role, uri, kms_key_id).Parameters
    IN  [Parameters |-> Merge(dev_params, prod_params(model_name))]

(***************************************************************************)
(* main                                                                    *)
(***************************************************************************)
ImageDetailUri == "ecr/custom:1"      \* ImageURI of imageDetail.json

\* get_pipeline_revision(pipeline_name)
get_pipeline_revision ==
    [JobId |-> "exec-1", GitSource |-> "commit-1", DataSource |-> "data-1"]

Inputs ==
    {a \in [model_name : ModelNames, ecr_dir : BOOLEAN, hp_exists : BOOLEAN,
            hp_json : JsonObjects, deploy_role : {"deploy-role"},
            sagemaker_role : {"sagemaker-role"}, kms_key_id : {"kms-1"},
            baseline_uri : {"s3://data/baseline"},
            sagemaker_bucket : {"bucket"}, git_branch : {"main"},
            create_experiment_function_name : {"create-experiment"},
            query_training_function_name : {"query-training"}] :
        ~a.hp_exists => a.hp_json = <<>>}

ArtifactOrderSwapped ==
    <<"workflow-input.json", "workflow-graph.json", "deploy-model-dev.json",
      "template-model-prd.json">>

\* the artifacts in the order main writes them
ArtifactOrder ==
    <<"workflow-graph.json", "workflow-input.json", "deploy-model-dev.json",
      "template-model-prd.json">>

Absent == [st |-> "absent", body |-> <<>>]
Written(body) == [st |-> "written", body |-> body]

MainInit ==
    /\ args \in Inputs
    /\ pc = "start"
    /\ image_uri = ""
    /\ job_id = ""
    /\ hyperparameters = <<>>
    /\ workflow_graph = NoGraph
    /\ deployed = NoGraph
    /\ files = [f \in {ArtifactOrder[i] : i \in 1..Len(ArtifactOrder)} |-> Absent]
    /\ log = <<>>

\* the image uri, inputData.json, the pipeline revision, hyperparameters.json
ReadConfiguration ==
    /\ pc = "start"
    /\ image_uri' = IF args.ecr_dir THEN ImageDetailUri ELSE get_training_image
    /\ job_id' = get_pipeline_revision.JobId
    /\ hyperparameters' =
          IF args.hp_exists
             THEN [i \in DOMAIN args.hp_json |-> JStr(str(args.hp_json[i]))]
             ELSE <<>>
    /\ pc' = "configured"
    /\ log' = Append(log, "configuration")
    /\ UNCHANGED <<args, workflow_graph, deployed, files>>
    /\ UNCHANGED execVars

BuildGraph ==
    /\ pc = "configured"
    /\ workflow_graph' =
          create_graph(
              create_experiment_step(args.create_experiment_function_name),
              create_baseline_step(args.baseline_uri, args.sagemaker_role),
              create_training_step(image_uri, hyperparameters,
                                   args.query_training_function_name,
                                   args.sagemaker_role))
    /\ pc' = "built"
    /\ log' = Append(log, "graph")
    /\ UNCHANGED <<args, image_uri, job_id, hyperparameters, deployed, files>>
    /\ UNCHANGED execVars

\* Workflow.attach(arn).update(workflow_graph)
UpdateWorkflow ==
    /\ pc = "built"
    /\ deployed' = workflow_graph
    /\ pc' = "updated"
    /\ log' = Append(log, "update")
    /\ UNCHANGED <<args, image_uri, job_id, hyperparameters, workflow_graph,
                   files>>
    /\ UNCHANGED execVars

workflow_inputs ==
    LET experiment_name == "mlops-" \o args.model_name
        trial_name == "mlops-" \o args.model_name \o "-" \o job_id
    IN  [ExperimentName |-> experiment_name, TrialName |-> trial_name,
         GitBranch |-> args.git_branch,
         GitCommitHash |-> get_pipeline_revision.GitSource,
         DataVersionId |-> get_pipeline_revision.DataSource,
         BaselineJobName |-> trial_name,
         BaselineOutputUri |->
             "s3://" \o args.sagemaker_bucket \o "/" \o args.model_name
             \o "/monitoring/baseline/mlops-" \o args.model_name \o "-pbl-"
             \o job_id,
         TrainingJobName |-> trial_name]

\* what main writes to the artifact
ArtifactBody(f) ==
    CASE f = "workflow-graph.json" -> deployed
      [] f = "workflow-input.json" -> workflow_inputs
      [] f = "deploy-model-dev.json" ->
            get_dev_params(args.model_name, job_id, args.deploy_role,
                           image_uri, args.kms_key_id)
      [] OTHER ->
            get_prd_params(args.model_name, job_id, args.deploy_role,
                           image_uri, args.kms_key_id)

\* pc after the first n artifacts are written
WritePc(n) ==
    CASE n = 0 -> "updated" [] n = 1 -> "wrote1" [] n = 2 -> "wrote2"
      [] n = 3 -> "wrote3" [] OTHER -> "done"

\* the n-th with open(...) block of main
WriteArtifact(n) ==
    /\ pc = WritePc(n - 1)
    /\ files' = [files EXCEPT ![ArtifactOrder[n]] =
                                  Written(ArtifactBody(ArtifactOrder[n]))]
    /\ pc' = WritePc(n)
    /\ log' = Append(log, ArtifactOrder[n])
    /\ UNCHANGED <<args, image_uri, job_id, hyperparameters, workflow_graph,
                   deployed>>
    /\ UNCHANGED execVars

WriteWorkflowGraph == WriteArtifact(1)
WriteWorkflowInput == WriteArtifact(2)
WriteDevParams == WriteArtifact(3)
WritePrdParams == WriteArtifact(4)

\* a step of main raises: main ends there.  A with open(..., "w") block that
\* raises after the open leaves its file created and empty.
Raise ==
    /\ pc \notin {"done", "failed"}
    /\ pc' = "failed"
    /\ \E opened \in BOOLEAN :
          files' = IF opened /\ pc \in {WritePc(n) : n \in 0..(Len(ArtifactOrder) - 1)}
                      THEN LET n == CHOOSE k \in 1..Len(ArtifactOrder) : pc = WritePc(k - 1)
                           IN  [files EXCEPT ![ArtifactOrder[n]] =
                                   [st |-> "empty", body |-> <<>>]]
                      ELSE files
    /\ UNCHANGED <<args, image_uri, job_id, hyperparameters, workflow_graph,
                   deployed, log>>
    /\ UNCHANGED execVars

(***************************************************************************)
(* The execution of the deployed definition by the state-machine service.  *)
(* Context 0 runs the top-level graph, context i the i-th branch of its    *)
(* Parallel state.                                                         *)
(***************************************************************************)
Errors == {"States.TaskFailed", "States.Timeout"}
MetricValues == (Threshold - MetricSpread)..(Threshold + MetricSpread)
Unset == 0 - 1

Min(a, b) == IF a < b THEN a ELSE b

BranchesOf(g) ==
    IF \E s \in g.States : s.Type = "Parallel"
       THEN (CHOOSE s \in g.States : s.Type = "Parallel").Branches
       ELSE <<>>

GraphOf(c) == IF c = 0 THEN deployed ELSE BranchesOf(deployed)[c]

Lookup(g, name) == CHOOSE s \in g.States : s.Name = name

StateOf(c) == Lookup(GraphOf(c), cur[c])

AllStates(g) ==
    g.States \cup
    UNION {g2.States : g2 \in {BranchesOf(g)[i] : i \in DOMAIN BranchesOf(g)}}

\* the result paths that some choice rule reads
ChoiceVariables(g) ==
    UNION {{s.Choices[i].Rule.Variable : i \in DOMAIN s.Choices} :
              s \in AllStates(g)}

\* the next state of the first catcher of s that matches err, or ""
Catcher(s, err) ==
    LET hits == {i \in DOMAIN s.Catch :
                    \/ err \in s.Catch[i].ErrorEquals
                    \/ "States.ALL" \in s.Catch[i].ErrorEquals}
    IN  IF hits = {} THEN ""
        ELSE s.Catch[CHOOSE i \in hits : \A j \in hits : i <= j].Next

Holds(rule, v) ==
    CASE rule.Op = "NumericLessThan" -> v < rule.Value
      [] rule.Op = "NumericLessThanEquals" -> v <= rule.Value
      [] rule.Op = "NumericGreaterThan" -> v > rule.Value
      [] OTHER -> v = rule.Value

\* the next state of the first choice of s whose rule holds, else the default
Chosen(s) ==
    LET hits == {i \in DOMAIN s.Choices :
                    Holds(s.Choices[i].Rule, data[s.Choices[i].Rule.Variable])}
    IN  IF hits = {} THEN s.Default
        ELSE s.Choices[CHOOSE i \in hits : \A j \in hits : i <= j].Next

ExecInit ==
    /\ exec = "NONE"
    /\ cur = <<>>
    /\ ctx = <<>>
    /\ ctxError = <<>>
    /\ status = <<>>
    /\ entries = <<>>
    /\ error = <<>>
    /\ data = <<>>

\* Context c leaves state s (with the given outcome) for state nx, from the
\* values cur0, ctx0, status0.  Entering a Parallel state starts its branches.
Goto(c, s, outcome, nx, cur0, ctx0, status0) ==
    LET n == Lookup(GraphOf(c), nx)
        bs == IF n.Type = "Parallel" THEN DOMAIN n.Branches ELSE {}
        started == {nx} \cup {n.Branches[i].StartAt : i \in bs}
    IN  /\ cur' = [k \in DOMAIN cur0 |->
                      IF k = c THEN nx
                      ELSE IF k \in bs THEN n.Branches[k].StartAt
                      ELSE cur0[k]]
        /\ ctx' = [k \in DOMAIN ctx0 |->
                      IF k \in bs THEN "running" ELSE ctx0[k]]
        /\ status' = [m \in DOMAIN status0 |->
                         IF m \in started THEN "Running"
                         ELSE IF m = s.Name THEN outcome
                         ELSE status0[m]]
        /\ entries' = [m \in DOMAIN entries |->
                          IF m \in started
                             THEN Min(entries[m] + 1, EntryCap)
                             ELSE entries[m]]
        /\ UNCHANGED <<exec, ctxError>>

\* Context c ends in state s: result is "succeeded" or "failed" (with err).
\* The end of context 0 is the end of the execution.
Finish(c, s, outcome, result, err, cur0, ctx0, status0) ==
    /\ cur' = [cur0 EXCEPT ![c] = ""]
    /\ ctx' = [ctx0 EXCEPT ![c] = result]
    /\ ctxError' = [ctxError EXCEPT ![c] = err]
    /\ status' = [status0 EXCEPT ![s.Name] = outcome]
    /\ exec' = IF c # 0 THEN exec
               ELSE IF result = "succeeded" THEN "SUCCEEDED" ELSE "FAILED"
    /\ UNCHANGED entries

Active(c, type) ==
    /\ exec = "RUNNING"
    /\ c \in DOMAIN ctx
    /\ ctx[c] = "running"
    /\ cur[c] # ""
    /\ StateOf(c).Type = type

\* StartExecution of the deployed state machine.  The execution's input is
\* the workflow-input.json artifact: the tooling that starts it runs after
\* main has completed.
StartExecution ==
    /\ exec = "NONE"
    /\ pc = "done"
    /\ deployed # NoGraph
    /\ LET names == {s.Name : s \in AllStates(deployed)}
           start == deployed.StartAt
           cs == 0..Len(BranchesOf(deployed))
       IN  /\ exec' = "RUNNING"
           /\ cur' = [c \in cs |-> IF c = 0 THEN start ELSE ""]
           /\ ctx' = [c \in cs |-> IF c = 0 THEN "running" ELSE "idle"]
           /\ ctxError' = [c \in cs |-> [Error |-> "", Cause |-> ""]]
           /\ status' = [m \in names |->
                            IF m = start THEN "Running" ELSE "NotStarted"]
           /\ entries' = [m \in names |-> IF m = start THEN 1 ELSE 0]
           /\ error' = [m \in names |-> ""]
           /\ data' = [v \in ChoiceVariables(deployed) |-> Unset]
    /\ UNCHANGED mainVars

\* the task of the current state of context c succeeds; its result goes to
\* its result path.  A result that a choice rule reads is the number found at
\* the rule's variable (the first training metric value).
TaskSucceeds(c) ==
    /\ Active(c, "Task")
    /\ LET s == StateOf(c)
       IN  /\ IF s.ResultPath \in DOMAIN data
                 THEN \E v \in MetricValues :
                         data' = [data EXCEPT ![s.ResultPath] = v]
                 ELSE data' = data
           /\ IF s.Next # ""
                 THEN Goto(c, s, "Succeeded", s.Next, cur, ctx, status)
                 ELSE Finish(c, s, "Succeeded", "succeeded",
                             [Error |-> "", Cause |-> ""], cur, ctx, status)
    /\ UNCHANGED error
    /\ UNCHANGED mainVars

\* the task of the current state of context c fails with err
TaskFails(c, err) ==
    /\ Active(c, "Task")
    /\ LET s == StateOf(c)
       IN  /\ error' = [error EXCEPT ![s.Name] = err]
           /\ IF Catcher(s, err) # ""
                 THEN Goto(c, s, "Failed", Catcher(s, err), cur, ctx, status)
                 ELSE Finish(c, s, "Failed", "failed",
                             [Error |-> err, Cause |-> ""], cur, ctx, status)
    /\ UNCHANGED data
    /\ UNCHANGED mainVars

ChoiceStep(c) ==
    /\ Active(c, "Choice")
    /\ LET s == StateOf(c)
           unset == \E i \in DOMAIN s.Choices :
                       data[s.Choices[i].Rule.Variable] = Unset
       IN  IF unset \/ Chosen(s) = ""
              THEN Finish(c, s, "Failed", "failed",
                          [Error |-> IF unset THEN "States.Runtime"
                                     ELSE "States.NoChoiceMatched",
                           Cause |-> ""], cur, ctx, status)
              ELSE Goto(c, s, "Succeeded", Chosen(s), cur, ctx, status)
    /\ UNCHANGED <<error, data>>
    /\ UNCHANGED mainVars

SucceedStep(c) ==
    /\ Active(c, "Succeed")
    /\ Finish(c, StateOf(c), "Succeeded", "succeeded",
              [Error |-> "", Cause |-> ""], cur, ctx, status)
    /\ UNCHANGED <<error, data>>
    /\ UNCHANGED mainVars

FailStep(c) ==
    /\ Active(c, "Fail")
    /\ Finish(c, StateOf(c), "Failed", "failed",
              [Error |-> "", Cause |-> StateOf(c).Cause], cur, ctx, status)
    /\ UNCHANGED <<error, data>>
    /\ UNCHANGED mainVars

\* every branch of the Parallel state has succeeded
ParallelSucceeds ==
    /\ Active(0, "Parallel")
    /\ \A i \in DOMAIN StateOf(0).Branches : ctx[i] = "succeeded"
    /\ LET s == StateOf(0)
       IN  IF s.Next # ""
              THEN Goto(0, s, "Succeeded", s.Next, cur, ctx, status)
              ELSE Finish(0, s, "Succeeded", "succeeded",
                          [Error |-> "", Cause |-> ""], cur, ctx, status)
    /\ UNCHANGED <<error, data>>
    /\ UNCHANGED mainVars

\* branch i of the Parallel state has failed: the branches still running are
\* stopped and the Parallel state fails with the branch's error
ParallelFails(i) ==
    /\ Active(0, "Parallel")
    /\ i \in DOMAIN StateOf(0).Branches
    /\ ctx[i] = "failed"
    /\ LET s == StateOf(0)
           stopped == {k \in DOMAIN s.Branches : ctx[k] = "running"}
           cur0 == [k \in DOMAIN cur |-> IF k \in stopped THEN "" ELSE cur[k]]
           ctx0 == [k \in DOMAIN ctx |->
                       IF k \in stopped THEN "aborted" ELSE ctx[k]]
           status0 == [m \in DOMAIN status |->
                          IF m \in {cur[k] : k \in stopped}
                             THEN "Aborted" ELSE status[m]]
           err == ctxError[i].Error
       IN  /\ error' = [error EXCEPT ![s.Name] = err]
           /\ IF Catcher(s, err) # ""
                 THEN Goto(0, s, "Failed", Catcher(s, err), cur0, ctx0, status0)
                 ELSE Finish(0, s, "Failed", "failed", ctxError[i],
                             cur0, ctx0, status0)
    /\ UNCHANGED data
    /\ UNCHANGED mainVars

ExecStep ==
    \/ \E c \in DOMAIN ctx : TaskSucceeds(c)
    \/ \E c \in DOMAIN ctx, err \in Errors : TaskFails(c, err)
    \/ \E c \in DOMAIN ctx : ChoiceStep(c)
    \/ \E c \in DOMAIN ctx : SucceedStep(c)
    \/ \E c \in DOMAIN ctx : FailStep(c)
    \/ ParallelSucceeds
    \/ \E i \in DOMAIN ctx \ {0} : ParallelFails(i)

Init == MainInit /\ ExecInit

Next ==
    \/ ReadConfiguration
    \/ BuildGraph
    \/ UpdateWorkflow
    \/ WriteWorkflowGraph
    \/ WriteWorkflowInput
    \/ WriteDevParams
    \/ WritePrdParams
    \/ Raise
    \/ StartExecution
    \/ ExecStep

Spec == Init /\ [][Next]_vars

\* every task ends and the service takes every step it can take
FairSpec == Spec /\ WF_vars(ExecStep)

(***************************************************************************)
(* The claims.                                                             *)
(***************************************************************************)
IsPrefix(a, b) == Len(a) <= Len(b) /\ \A i \in 1..Len(a) : a[i] = b[i]

Started == exec # "NONE"
Ran(n) == status[n] # "NotStarted"
Metric == data["$.QueryTrainingResults"]

\* C1: main reads the configuration, builds the graph, pushes it with
\* Workflow.update and only then writes workflow-graph.json,
\* workflow-input.json, deploy-model-dev.json, template-model-prd.json, in
\* this order; no artifact exists unless the update completed, and a run that
\* completes has written all four.
C1_MainOrder ==
    /\ IsPrefix(log, <<"configuration", "graph", "update",
                       "workflow-graph.json", "workflow-input.json",
                       "deploy-model-dev.json", "template-model-prd.json">>)
    /\ \A f \in DOMAIN files :
          files[f].st # "absent" =>
              /\ Len(log) >= 3
              /\ log[3] = "update"
              /\ deployed # NoGraph
              /\ deployed = workflow_graph
    /\ \A f \in DOMAIN files :
          files[f].st = "written" <=> \E i \in 1..Len(log) : log[i] = f
    /\ pc = "done" =>
          /\ Len(log) = 7
          /\ \A f \in DOMAIN files : files[f].st = "written"

C1_Witness ==
    /\ pc = "done"
    /\ Len(log) = 7
    /\ files["template-model-prd.json"].st = "written"

\* C2: the training branch runs Training Job, Save Model, Query Training
\* Results, RMSE < 10 in this order: each of them starts only after the one
\* before it has succeeded.
C2_TrainingOrder ==
    Started =>
        /\ Ran("Save Model") => status["Training Job"] = "Succeeded"
        /\ Ran("Query Training Results") => status["Save Model"] = "Succeeded"
        /\ Ran("RMSE < 10") => status["Query Training Results"] = "Succeeded"
        /\ cur[2] # "" => Ran("Training Job")

C2_Witness ==
    /\ Started
    /\ status["RMSE < 10"] = "Succeeded"
    /\ status["Training Job"] = "Succeeded"

C4_TaskFailedCaught ==
    Started =>
        /\ error["Training Job"] = "States.TaskFailed" =>
              /\ entries["Training failed"] = 1
              /\ ~Ran("Save Model")
              /\ ~Ran("Query Training Results")
              /\ ~Ran("RMSE < 10")
              /\ status["Training failed"] = "Failed" =>
                    /\ ctx[2] = "failed"
                    /\ ctxError[2].Cause = "SageMakerTrainingJobFailed"
        /\ error["Baseline Job"] = "States.TaskFailed" =>
              /\ entries["Baseline failed"] = 1
              /\ status["Baseline failed"] = "Failed" =>
                    /\ ctx[1] = "failed"
                    /\ ctxError[1].Cause = "SageMakerBaselineJobFailed"

C4_Witness ==
    /\ Started
    /\ error["Training Job"] = "States.TaskFailed"
    /\ status["Training failed"] = "Failed"
    /\ error["Baseline Job"] = "States.TaskFailed"
    /\ status["Baseline failed"] = "Failed"

\* the hyperparameters of the estimator of the Training Job step
EstimatorHp(g) ==
    Lookup(BranchesOf(g)[2], "Training Job").Parameters.hyperparameters

\* C5: the estimator's hyperparameters are the eight defaults overridden by
\* the user's: every key of hyperparameters.json has the user's value as a
\* string, every other default keeps its value, the user's other keys are
\* added, and without hyperparameters.json exactly the defaults are used.
C5_Hyperparameters ==
    workflow_graph # NoGraph =>
        LET est == EstimatorHp(workflow_graph)
            user == args.hp_json
        IN  /\ Cardinality(DOMAIN hp) = 8
            /\ DOMAIN est = DOMAIN hp \cup DOMAIN user
            /\ \A k \in DOMAIN user :
                  /\ est[k].type = "str"
                  /\ user[k].type = "str" => est[k].str = user[k].str
                  /\ user[k] = JInt(0) => est[k].str = "0"
                  /\ user[k] = JInt(1) => est[k].str = "1"
                  /\ user[k].type = "int" => est[k].str = Decimal(user[k].int)
            /\ \A k \in DOMAIN hp \ DOMAIN user : est[k] = hp[k]
            /\ ~args.hp_exists => est = hp

C5_Witness ==
    /\ workflow_graph # NoGraph
    /\ args.hp_exists
    /\ DOMAIN args.hp_json = UserKeys
    /\ args.hp_json["eta"] = JInt(1)
    /\ EstimatorHp(workflow_graph)["eta"] = JStr("1")
    /\ EstimatorHp(workflow_graph)["max_depth"] = JStr("9")

\* C6: the prod parameters agree with the dev parameters on every key but
\* VariantName, which is prd-<model_name> where dev has dev-<model_name>,
\* and add exactly ScheduleMetricName and ScheduleMetricThreshold ("0.20");
\* computing them leaves the dev parameters as they were.
C6_PrdParams ==
    pc = "done" =>
        LET dev == files["deploy-model-dev.json"].body.Parameters
            prd == files["template-model-prd.json"].body.Parameters
        IN  /\ DOMAIN dev = {"ImageRepoUri", "ModelName", "TrainJobId",
                             "MLOpsRoleArn", "VariantName", "KmsKeyId"}
            /\ \A k \in DOMAIN dev \ {"VariantName"} : prd[k] = dev[k]
            /\ dev["VariantName"] = "dev-" \o args.model_name
            /\ prd["VariantName"] = "prd-" \o args.model_name
            /\ DOMAIN prd = DOMAIN dev \cup {"ScheduleMetricName",
                                             "ScheduleMetricThreshold"}
            /\ prd["ScheduleMetricThreshold"] = "0.20"
            /\ prd["ScheduleMetricName"] = "feature_baseline_drift_total_amount"
            /\ dev = get_dev_params(args.model_name, job_id, args.deploy_role,
                                    image_uri, args.kms_key_id).Parameters

C6_Witness ==
    /\ pc = "done"
    /\ args.model_name = "xgb"
    /\ files["template-model-prd.json"].body.Parameters["VariantName"]
          = "prd-xgb"

\* C7: no state of the machine is entered twice, and every execution ends
\* as succeeded or failed, whatever the tasks return.
C7_NoCycleTerminates ==
    /\ [](Started =>
            \A n \in {"Create Experiment", "Baseline Job", "Training Job",
                      "Save Model", "Query Training Results", "RMSE < 10"} :
                entries[n] <= 1)
    /\ (exec = "RUNNING" ~> exec \in {"SUCCEEDED", "FAILED"})

C7_Witness ==
    /\ exec = "SUCCEEDED"
    /\ \A n \in {"Create Experiment", "Baseline Job", "Training Job",
                 "Save Model", "Query Training Results", "RMSE < 10"} :
          entries[n] = 1

==========================================================================
